---- MODULE Spec2Model ----
(***************************************************************************)
(* Model of envire::core::LabeledTransformTree                             *)
(* (src/src/LabeledTransformTree.hpp): a boost::labeled_graph over a       *)
(* boost::directed_graph whose vertices carry a Frame and whose edges      *)
(* carry a Transform.                                                      *)
(*                                                                         *)
(* The class keeps two structures:                                         *)
(*   - the underlying graph (this->graph()): the vertex list, the Frame    *)
(*     of each vertex, and the edge list with the Transform of each edge;  *)
(*   - the label map of labeled_graph (std::map<VertexLabel, vertex>),     *)
(*     which add_vertex fills and vertex_by_label reads.                   *)
(* Vertex and edge descriptors are addresses of heap records: a record     *)
(* that was freed can be handed out again by the allocator, so the         *)
(* identity of a new vertex is any identity not in the graph.              *)
(*                                                                         *)
(* labeled_graph::remove_vertex(label) is library code whose behaviour      *)
(* depends on the Boost release the class is built against: older releases *)
(* remove the vertex and leave the label map entry, newer ones erase the   *)
(* entry as well.  `eraseLabel` fixes the build for a whole behaviour.     *)
(*                                                                         *)
(* A call that dereferences a null or a freed vertex descriptor has        *)
(* undefined behaviour.  The model records it in `fault` and takes either  *)
(* of two outcomes: the process aborts at that point (`halted`), or the    *)
(* access goes unnoticed and the call returns without further effect on    *)
(* the graph.                                                              *)
(*                                                                         *)
(* The module also models the TreeView class (src/src/graph/TreeView.hpp): *)
(* the lifetime of TreeView objects and their registration with a          *)
(* TreeUpdatePublisher (SpecView), and the derivation of a TreeView from   *)
(* the graph (SpecTree).                                                   *)
(***************************************************************************)
EXTENDS Integers, FiniteSets, Sequences, TLC

\* ------------------------------------------------------------------ bounds
NumVertexIds == 3
MaxEdges == 2
NumViews == 2
NumTreeEdges == 3

\* ------------------------------------------------------------ value spaces
Names == {"a", "b"}
Transforms == {"t1", "t2"}
NullVertex == 0
VertexIds == 1..NumVertexIds
EdgeIds == 1..MaxEdges
UBOutcomes == {"abort", "continue"}
ViewIds == 1..NumViews
NoPublisher == "nullptr"
Publishers == {"graph"}
Listeners == {"l1"}

VARIABLES
    frame,      \* graph(): live vertex descriptor -> name of its Frame
    edges,      \* graph(): live edge descriptor -> [s, t, tf]
    labelMap,   \* labeled_graph::_map: name -> vertex descriptor or NullVertex
    eraseLabel, \* build: labeled_graph::remove_vertex(label) erases the map entry
    last,       \* the last call: operation, arguments, returned value
    fault,      \* "none", or the undefined access the last call made
    halted,     \* the process was aborted (undefined access, failed assert)
    views,      \* TreeView objects: id -> [state, publisher, tree, crossEdges, listeners]
    subscribers,\* the TreeViews registered with the publisher
    movePc,     \* position inside TreeView(TreeView&&), "idle" outside of it
    ndebug      \* build: assert() is compiled out

vars == <<frame, edges, labelMap, eraseLabel, last, fault, halted,
          views, subscribers, movePc, ndebug>>
graphVars == <<frame, edges, labelMap>>
viewVars == <<views, subscribers, movePc, ndebug>>

\* ------------------------------------------------------------ graph reads
vertices == DOMAIN frame
num_vertices == Cardinality(vertices)
num_edges == Cardinality(DOMAIN edges)

source(E, e) == E[e].s
target(E, e) == E[e].t
getTransform(e) == edges[e].tf
getFrame(vd) == frame[vd]

out_degree(E, v) == Cardinality({e \in DOMAIN E : E[e].s = v})
in_degree(E, v) == Cardinality({e \in DOMAIN E : E[e].t = v})

\* boost::vertex_by_label: the map entry, null_vertex() when there is none.
vertex(node_label) == labelMap[node_label]

\* boost::edge(u, v, g): the edges stored from u to v.
EdgesFromTo(E, u, v) == {e \in DOMAIN E : E[e].s = u /\ E[e].t = v}

Restrict(f, D) == [x \in D |-> f[x]]

\* mutant: only the out-edges of v are dropped
clear_vertex_out_only(E, v) == Restrict(E, {e \in DOMAIN E : E[e].s # v})

\* boost::clear_vertex: drops every in- and out-edge of v.
clear_vertex(E, v) == Restrict(E, {e \in DOMAIN E : E[e].s # v /\ E[e].t # v})

\* boost::remove_vertex(v, graph()): unlinks and frees the vertex record.
graph_remove_vertex(F, v) == Restrict(F, DOMAIN F \ {v})

\* what a descriptor read from the label map points at
DescriptorKind(F, v) ==
    IF v = NullVertex THEN "null_vertex"
    ELSE IF v \notin DOMAIN F THEN "dangling_vertex"
    ELSE "live"

\* The record of a call: a1, a2 are its name or descriptor arguments, tf its
\* Transform argument, ret the returned (or resolved) descriptor, for
\* remove_edge the set of edges it removed.  flag is the
\* destructive argument of remove_edge; for add_vertex and add_edge it tells
\* whether a new record was created, for remove_vertex whether the vertex had
\* edges to clear.
Call(op, a1, a2, tf, flag, ret) ==
    [op |-> op, a1 |-> a1, a2 |-> a2, tf |-> tf, flag |-> flag, ret |-> ret]

EmptyMap == [x \in {} |-> NullVertex]

\* a TreeView as its member initialisers leave it: no publisher, empty tree,
\* no cross edges, no slot connected to treeUpdated
DefaultView ==
    [state |-> "alive", publisher |-> NoPublisher, tree |-> EmptyMap,
     crossEdges |-> <<>>, listeners |-> {}]

\* storage of a TreeView that is not constructed yet, or destroyed
NoView(st) == [DefaultView EXCEPT !.state = st]

\* no TreeView exists and none is registered
InitViews ==
    /\ views = [v \in ViewIds |-> NoView("unborn")]
    /\ subscribers = {}
    /\ movePc = "idle"

\* -------------------------------------------------------------------- Init
Init ==
    /\ frame = EmptyMap
    /\ edges = EmptyMap
    /\ labelMap = [n \in Names |-> NullVertex]
    /\ eraseLabel \in BOOLEAN
    /\ last = Call("init", NullVertex, NullVertex, "none", FALSE, NullVertex)
    /\ fault = "none"
    /\ halted = FALSE
    /\ InitViews
    /\ ndebug = FALSE

\* ---------------------------------------------------------- vertex methods
\* labeled_graph::add_vertex -> insert_labeled_vertex: the map insertion is
\* tried first and a vertex is created only for a new key.
insert_labeled_vertex(op, node_label) ==
    IF labelMap[node_label] = NullVertex
    THEN \E v \in VertexIds \ vertices :
            /\ frame' = [x \in vertices \cup {v} |->
                            IF x = v THEN node_label ELSE frame[x]]
            /\ labelMap' = [labelMap EXCEPT ![node_label] = v]
            /\ last' = Call(op, node_label, node_label, "none", TRUE, v)
    ELSE /\ UNCHANGED <<frame, labelMap>>
         /\ last' = Call(op, node_label, node_label, "none", FALSE, labelMap[node_label])

add_vertex_label(node_label) ==
    /\ ~halted
    /\ insert_labeled_vertex("add_vertex_label", node_label)
    /\ fault' = "none"
    /\ UNCHANGED <<edges, eraseLabel, halted>>

add_vertex_frame(node) ==
    /\ ~halted
    /\ insert_labeled_vertex("add_vertex_frame", node)
    /\ fault' = "none"
    /\ UNCHANGED <<edges, eraseLabel, halted>>

lookup_vertex(node_label) ==
    /\ ~halted
    /\ last' = Call("vertex", node_label, node_label, "none", FALSE, vertex(node_label))
    /\ fault' = "none"
    /\ UNCHANGED <<frame, edges, labelMap, eraseLabel, halted>>

\* an undefined access: recorded, then abort or return
Undefined(kind) ==
    /\ fault' = kind
    /\ \E o \in UBOutcomes : halted' = (o = "abort")

remove_vertex_label(node_label) ==
    /\ ~halted
    /\ LET v == vertex(node_label)
           kind == DescriptorKind(frame, v)
       IN  /\ last' = Call("remove_vertex_label", node_label, node_label, "none",
                           kind = "live" /\ clear_vertex(edges, v) # edges, v)
           /\ IF kind = "live"
              THEN /\ edges' = clear_vertex(edges, v)
                   /\ frame' = graph_remove_vertex(frame, v)
                   /\ labelMap' = IF eraseLabel
                                  THEN [labelMap EXCEPT ![node_label] = NullVertex]
                                  ELSE labelMap
                   /\ fault' = "none"
                   /\ UNCHANGED halted
              ELSE /\ Undefined(kind)
                   /\ UNCHANGED <<frame, edges, labelMap>>
    /\ UNCHANGED eraseLabel

remove_vertex_vd(vd) ==
    /\ ~halted
    /\ vd \in vertices
    /\ edges' = clear_vertex(edges, vd)
    /\ frame' = graph_remove_vertex(frame, vd)
    /\ last' = Call("remove_vertex_vd", vd, vd, "none", clear_vertex(edges, vd) # edges, vd)
    /\ fault' = "none"
    /\ UNCHANGED <<labelMap, eraseLabel, halted>>

clear ==
    /\ ~halted
    /\ frame' = EmptyMap
    /\ edges' = EmptyMap
    /\ last' = Call("clear", NullVertex, NullVertex, "none", FALSE, NullVertex)
    /\ fault' = "none"
    /\ UNCHANGED <<labelMap, eraseLabel, halted>>

\* ------------------------------------------------------------ edge methods
\* mutant: no lookup of the pair, an edge is always created
put_or_add_edge_always_adds(op, a1, a2, u, v, tf) ==
    \E e \in EdgeIds \ DOMAIN edges :
        /\ edges' = [x \in DOMAIN edges \cup {e} |->
                        IF x = e THEN [s |-> u, t |-> v, tf |-> tf] ELSE edges[x]]
        /\ last' = Call(op, a1, a2, tf, TRUE, e)

\* mutant: the found edge is replaced by a newly created one
put_or_add_edge_recreates(op, a1, a2, u, v, tf) ==
    \E e \in EdgeIds \ {x \in DOMAIN edges : edges[x].s # u \/ edges[x].t # v} :
        /\ edges' = [x \in {y \in DOMAIN edges : edges[y].s # u \/ edges[y].t # v} \cup {e} |->
                        IF x = e THEN [s |-> u, t |-> v, tf |-> tf] ELSE edges[x]]
        /\ last' = Call(op, a1, a2, tf, EdgesFromTo(edges, u, v) = {}, e)

\* The body shared by the two add_edge overloads once both descriptors are
\* known: boost::edge(u, v) looks the ordered pair up; a found edge gets its
\* Transform overwritten (boost::put), otherwise boost::add_edge creates one.
put_or_add_edge(op, a1, a2, u, v, tf) ==
    IF EdgesFromTo(edges, u, v) # {}
    THEN LET e == CHOOSE x \in EdgesFromTo(edges, u, v) : TRUE
         IN  /\ edges' = [edges EXCEPT ![e].tf = tf]
             /\ last' = Call(op, a1, a2, tf, FALSE, e)
    ELSE \E e \in EdgeIds \ DOMAIN edges :
             /\ edges' = [x \in DOMAIN edges \cup {e} |->
                             IF x = e THEN [s |-> u, t |-> v, tf |-> tf] ELSE edges[x]]
             /\ last' = Call(op, a1, a2, tf, TRUE, e)

\* add_edge(label, label, tf): edge_by_label and add_edge_by_label resolve
\* both names through the label map and use the descriptors unchecked.
add_edge_label(node_from, node_to, tf) ==
    /\ ~halted
    /\ LET u == vertex(node_from)
           v == vertex(node_to)
           ku == DescriptorKind(frame, u)
           kv == DescriptorKind(frame, v)
       IN  IF ku = "live" /\ kv = "live"
           THEN /\ put_or_add_edge("add_edge_label", node_from, node_to, u, v, tf)
                /\ fault' = "none"
                /\ UNCHANGED halted
           ELSE /\ Undefined(IF ku # "live" THEN ku ELSE kv)
                /\ last' = Call("add_edge_label", node_from, node_to, tf, FALSE,
                                IF ku # "live" THEN u ELSE v)
                /\ UNCHANGED edges
    /\ UNCHANGED <<frame, labelMap, eraseLabel>>

add_edge_vd(node_from, node_to, tf) ==
    /\ ~halted
    /\ node_from \in vertices
    /\ node_to \in vertices
    /\ put_or_add_edge("add_edge_vd", node_from, node_to, node_from, node_to, tf)
    /\ fault' = "none"
    /\ UNCHANGED <<frame, labelMap, eraseLabel, halted>>

\* mutant: only the out-degree of an endpoint is looked at
DestructiveCheck_out_degree_only(F, E, svd, tvd) ==
    LET F1 == IF out_degree(E, svd) = 0 THEN graph_remove_vertex(F, svd) ELSE F
        kt == DescriptorKind(F1, tvd)
    IN  IF kt # "live"
        THEN [frame |-> F1, fault |-> kt]
        ELSE [frame |-> IF out_degree(E, tvd) = 0
                        THEN graph_remove_vertex(F1, tvd) ELSE F1,
              fault |-> "none"]

\* mutant: the target endpoint is never checked
DestructiveCheck_source_only(F, E, svd, tvd) ==
    [frame |-> IF in_degree(E, svd) + out_degree(E, svd) = 0
               THEN graph_remove_vertex(F, svd) ELSE F,
     fault |-> "none"]

\* The destructive branch of remove_edge, run on the edge list E left by the
\* edge removal: the source is checked and removed first, then the target is
\* read.  A target that is not (or no longer) a vertex of the graph is read
\* through a null or freed descriptor.
DestructiveCheck(F, E, svd, tvd) ==
    LET F1 == IF in_degree(E, svd) + out_degree(E, svd) = 0
              THEN graph_remove_vertex(F, svd) ELSE F
        kt == DescriptorKind(F1, tvd)
    IN  IF kt # "live"
        THEN [frame |-> F1, fault |-> kt]
        ELSE [frame |-> IF in_degree(E, tvd) + out_degree(E, tvd) = 0
                        THEN graph_remove_vertex(F1, tvd) ELSE F1,
              fault |-> "none"]

\* the end of a remove_edge call whose edge removal left the edge list E
FinishRemoveEdge(E, svd, tvd, destructive) ==
    /\ edges' = E
    /\ IF destructive
       THEN LET r == DestructiveCheck(frame, E, svd, tvd)
            IN  /\ frame' = r.frame
                /\ IF r.fault = "none"
                   THEN fault' = "none" /\ UNCHANGED halted
                   ELSE Undefined(r.fault)
       ELSE /\ UNCHANGED <<frame, halted>>
            /\ fault' = "none"

\* what remove_edge(edge_descriptor, destructive) does to the graph
remove_edge_ed_effect(ed, destructive) ==
    LET svd == source(edges, ed)
        tvd == target(edges, ed)
    IN  FinishRemoveEdge(Restrict(edges, DOMAIN edges \ {ed}), svd, tvd, destructive)

\* remove_edge(edge_descriptor, destructive)
remove_edge_ed(ed, destructive) ==
    /\ ~halted
    /\ ed \in DOMAIN edges
    /\ remove_edge_ed_effect(ed, destructive)
    /\ last' = Call("remove_edge_ed", source(edges, ed), target(edges, ed), "none",
                    destructive, {ed})
    /\ UNCHANGED <<labelMap, eraseLabel>>

\* mutant: the edge from v to u is dropped as well
remove_edge_uv_both_ways(E, u, v) ==
    Restrict(E, DOMAIN E \ (EdgesFromTo(E, u, v) \cup EdgesFromTo(E, v, u)))

\* boost::remove_edge(u, v, g): drops every edge from u to v, none if there
\* is none.
remove_edge_uv(E, u, v) == Restrict(E, DOMAIN E \ EdgesFromTo(E, u, v))

\* what remove_edge(vertex, vertex, destructive) does to the graph
remove_edge_vd_effect(node_from, node_to, destructive) ==
    FinishRemoveEdge(remove_edge_uv(edges, node_from, node_to),
                     node_from, node_to, destructive)

\* remove_edge(vertex, vertex, destructive)
remove_edge_vd(node_from, node_to, destructive) ==
    /\ ~halted
    /\ node_from \in vertices
    /\ node_to \in vertices
    /\ remove_edge_vd_effect(node_from, node_to, destructive)
    /\ last' = Call("remove_edge_vd", node_from, node_to, "none", destructive,
                    EdgesFromTo(edges, node_from, node_to))
    /\ UNCHANGED <<labelMap, eraseLabel>>

\* What remove_edge(label, label, destructive) does to the graph: both names
\* go through vertex_by_label and the descriptors are passed on unchecked to
\* the vertex overload.  The edge removal reads the out-edges of the source;
\* the target is first dereferenced by the destructive branch.
remove_edge_label_effect(node_from, node_to, destructive) ==
    LET v_from == vertex(node_from)
        v_to == vertex(node_to)
        kf == DescriptorKind(frame, v_from)
    IN  IF kf # "live"
        THEN /\ Undefined(kf)
             /\ UNCHANGED <<frame, edges>>
        ELSE remove_edge_vd_effect(v_from, v_to, destructive)

\* remove_edge(label, label, destructive)
remove_edge_label(node_from, node_to, destructive) ==
    /\ ~halted
    /\ remove_edge_label_effect(node_from, node_to, destructive)
    /\ last' = Call("remove_edge_label", node_from, node_to, "none", destructive,
                    EdgesFromTo(edges, vertex(node_from), vertex(node_to)))
    /\ UNCHANGED <<labelMap, eraseLabel>>

Next ==
    \/ \E n \in Names : add_vertex_label(n) /\ UNCHANGED viewVars
    \/ \E n \in Names : add_vertex_frame(n) /\ UNCHANGED viewVars
    \/ \E n \in Names : lookup_vertex(n) /\ UNCHANGED viewVars
    \/ \E v \in VertexIds : remove_vertex_vd(v) /\ UNCHANGED viewVars
    \/ \E n \in Names : remove_vertex_label(n) /\ UNCHANGED viewVars
    \/ \E n, m \in Names, tf \in Transforms : add_edge_label(n, m, tf) /\ UNCHANGED viewVars
    \/ \E u, v \in VertexIds, tf \in Transforms : add_edge_vd(u, v, tf) /\ UNCHANGED viewVars
    \/ \E e \in EdgeIds, d \in BOOLEAN : remove_edge_ed(e, d) /\ UNCHANGED viewVars
    \/ \E n, m \in Names, d \in BOOLEAN : remove_edge_label(n, m, d) /\ UNCHANGED viewVars
    \/ \E u, v \in VertexIds, d \in BOOLEAN : remove_edge_vd(u, v, d) /\ UNCHANGED viewVars
    \/ clear /\ UNCHANGED viewVars

Spec == Init /\ [][Next]_vars

\* ------------------------------------------------- the two-edge path A-B-C
\* The graph left by add_vertex of three frames and add_edge of one edge
\* between A and B and one between B and C, in either direction each, with
\* any descriptors the allocator may have handed out.
PathNames == {"A", "B", "C"}

InitPath ==
    /\ \E id \in [PathNames -> VertexIds] :
          /\ \A n, m \in PathNames : id[n] = id[m] => n = m
          /\ frame = [v \in {id[n] : n \in PathNames} |->
                          CHOOSE n \in PathNames : id[n] = v]
          /\ labelMap = id
          /\ \E ab, bc \in BOOLEAN, tab, tbc \in Transforms, e1, e2 \in EdgeIds :
                /\ e1 # e2
                /\ edges = [e \in {e1, e2} |->
                      IF e = e1
                      THEN [s |-> IF ab THEN id["A"] ELSE id["B"],
                            t |-> IF ab THEN id["B"] ELSE id["A"], tf |-> tab]
                      ELSE [s |-> IF bc THEN id["B"] ELSE id["C"],
                            t |-> IF bc THEN id["C"] ELSE id["B"], tf |-> tbc]]
    /\ eraseLabel \in BOOLEAN
    /\ last = Call("init", NullVertex, NullVertex, "none", FALSE, NullVertex)
    /\ fault = "none"
    /\ halted = FALSE
    /\ InitViews
    /\ ndebug = FALSE

\* destructive removal of an edge of the path, through each overload
NextPath ==
    \/ \E e \in EdgeIds : remove_edge_ed(e, TRUE) /\ UNCHANGED viewVars
    \/ \E e \in DOMAIN edges :
          /\ remove_edge_vd(source(edges, e), target(edges, e), TRUE)
          /\ UNCHANGED viewVars
    \/ \E e \in DOMAIN edges :
          /\ remove_edge_label(getFrame(source(edges, e)), getFrame(target(edges, e)), TRUE)
          /\ UNCHANGED viewVars

SpecPath == InitPath /\ [][NextPath]_vars

\* ------------------------------------------------------- TreeView lifetime
\* TreeView objects (src/src/graph/TreeView.hpp) and the one publisher they
\* can be registered with.  The class has a copy constructor, a copy
\* assignment and a move constructor; it declares no move assignment, so an
\* assignment from an rvalue runs operator=(const TreeView&).  The
\* publisher's two virtual methods are pure in TreeUpdatePublisher; their
\* bodies are taken from the specification: a set of subscribers, and
\* subscribeTreeView setting the view's publisher through setPublisher.
\*
\* The move constructor calls the publisher twice.  The model takes one step
\* per statement of its body, so that the publisher's state between the two
\* calls is a state of the model; no other operation runs in between.

\* values a client stores in the public members tree and crossEdges
Snapshots ==
    { [tree |-> EmptyMap, crossEdges |-> <<>>],
      [tree |-> [x \in {1, 2} |->
                    IF x = 1 THEN [parent |-> NullVertex, children |-> {2}]
                    ELSE [parent |-> 1, children |-> {}]],
       crossEdges |-> <<2>>] }

Alive(v) == views[v].state = "alive"

\* v is the next object to be constructed: objects are numbered in the order
\* of their construction
Fresh(v) ==
    /\ views[v].state = "unborn"
    /\ \A w \in ViewIds : w < v => views[w].state # "unborn"

\* the view is what the specification calls live: registered, and holding
\* the publisher it is registered with
Live(v) == views[v].publisher # NoPublisher /\ v \in subscribers

\* TreeUpdatePublisher::unsubscribeTreeView
unsubscribeTreeView(S, view) == S \ {view}

\* TreeUpdatePublisher::subscribeTreeView without its call of setPublisher
subscribeTreeView(S, view) == S \cup {view}

\* TreeView::setPublisher: the assertion, then the assignment
setPublisherAsserts(V, view) == V[view].publisher = NoPublisher
setPublisher(V, view, pub) == [V EXCEPT ![view].publisher = pub]

\* TreeView::operator=(const TreeView&): publisher, tree and crossEdges are
\* copied, treeUpdated is not
assign(V, dst, src) ==
    [V EXCEPT ![dst].publisher = V[src].publisher,
              ![dst].tree = V[src].tree,
              ![dst].crossEdges = V[src].crossEdges]

\* TreeView::~TreeView calls unsubscribeTreeView iff the publisher is set
DestructorUnsubscribes(V, v) == V[v].publisher # NoPublisher

ViewCall(op, dst, src, flag, ret) == Call(op, dst, src, "none", flag, ret)

\* TreeView()
construct(v) ==
    /\ ~halted /\ movePc = "idle"
    /\ Fresh(v)
    /\ views' = [views EXCEPT ![v] = DefaultView]
    /\ last' = ViewCall("construct", v, v, FALSE, {})
    /\ UNCHANGED <<subscribers, movePc, fault, halted>>

\* the client fills the public members tree and crossEdges
store_snapshot(v, snap) ==
    /\ ~halted /\ movePc = "idle"
    /\ Alive(v)
    /\ views' = [views EXCEPT ![v].tree = snap.tree, ![v].crossEdges = snap.crossEdges]
    /\ last' = ViewCall("store_snapshot", v, v, FALSE, {})
    /\ UNCHANGED <<subscribers, movePc, fault, halted>>

\* treeUpdated.connect(slot)
connect(v, l) ==
    /\ ~halted /\ movePc = "idle"
    /\ Alive(v)
    /\ views' = [views EXCEPT ![v].listeners = @ \cup {l}]
    /\ last' = ViewCall("connect", v, v, FALSE, {})
    /\ UNCHANGED <<subscribers, movePc, fault, halted>>

\* publisher->subscribeTreeView(view): setPublisher, whose assertion aborts
\* the process unless it is compiled out, then the registration
subscribe_effect(view, pub) ==
    IF setPublisherAsserts(views, view) \/ ndebug
    THEN /\ views' = setPublisher(views, view, pub)
         /\ subscribers' = subscribeTreeView(subscribers, view)
         /\ UNCHANGED <<fault, halted>>
    ELSE /\ fault' = "assert_publisher"
         /\ halted' = TRUE
         /\ UNCHANGED <<views, subscribers>>

\* the client asks the publisher for live updates of a view
subscribe(v) ==
    /\ ~halted /\ movePc = "idle"
    /\ Alive(v)
    /\ \E pub \in Publishers : subscribe_effect(v, pub)
    /\ last' = ViewCall("subscribe", v, v, Live(v), {})
    /\ UNCHANGED movePc

\* TreeView(const TreeView& other): member initialisers, then *this = other
copy_construct(dst, src) ==
    /\ ~halted /\ movePc = "idle"
    /\ Fresh(dst)
    /\ Alive(src)
    /\ views' = assign([views EXCEPT ![dst] = DefaultView], dst, src)
    /\ last' = ViewCall("copy_construct", dst, src, Live(src), {})
    /\ UNCHANGED <<subscribers, movePc, fault, halted>>

\* dst = src, src an lvalue or an rvalue
copy_assign(dst, src) ==
    /\ ~halted /\ movePc = "idle"
    /\ Alive(dst) /\ Alive(src)
    /\ dst # src
    /\ views' = assign(views, dst, src)
    /\ last' = ViewCall("copy_assign", dst, src, Live(src), {})
    /\ UNCHANGED <<subscribers, movePc, fault, halted>>

\* TreeView(TreeView&& other), the member initialisers: tree and crossEdges
\* are moved out of other, which keeps empty containers
move_construct_begin(dst, src) ==
    /\ ~halted /\ movePc = "idle"
    /\ Fresh(dst)
    /\ Alive(src)
    /\ views' = [views EXCEPT
          ![dst] = [DefaultView EXCEPT !.tree = views[src].tree,
                                       !.crossEdges = views[src].crossEdges],
          ![src].tree = EmptyMap,
          ![src].crossEdges = <<>>]
    /\ movePc' = IF views[src].publisher # NoPublisher THEN "unsubscribe" ELSE "swap"
    /\ last' = ViewCall("move_construct", dst, src, Live(src),
                        <<views[src].tree, views[src].crossEdges, views[src].listeners>>)
    /\ UNCHANGED <<subscribers, fault, halted>>

\* mutant: the source is left registered
move_construct_unsubscribe_skipped ==
    /\ movePc = "unsubscribe"
    /\ movePc' = "subscribe"
    /\ UNCHANGED <<views, subscribers, last, fault, halted>>

\* other.publisher->unsubscribeTreeView(&other)
move_construct_unsubscribe ==
    /\ movePc = "unsubscribe"
    /\ subscribers' = unsubscribeTreeView(subscribers, last.a2)
    /\ movePc' = "subscribe"
    /\ UNCHANGED <<views, last, fault, halted>>

\* other.publisher->subscribeTreeView(this)
move_construct_subscribe ==
    /\ movePc = "subscribe"
    /\ subscribe_effect(last.a1, views[last.a2].publisher)
    /\ movePc' = "detach"
    /\ UNCHANGED last

\* mutant: the source keeps its publisher
move_construct_detach_keeps_publisher ==
    /\ movePc = "detach"
    /\ movePc' = "swap"
    /\ UNCHANGED <<views, subscribers, last, fault, halted>>

\* other.publisher = nullptr
move_construct_detach ==
    /\ movePc = "detach"
    /\ views' = [views EXCEPT ![last.a2].publisher = NoPublisher]
    /\ movePc' = "swap"
    /\ UNCHANGED <<subscribers, last, fault, halted>>

\* treeUpdated.swap(other.treeUpdated)
move_construct_swap ==
    /\ movePc = "swap"
    /\ views' = [views EXCEPT ![last.a1].listeners = views[last.a2].listeners,
                              ![last.a2].listeners = views[last.a1].listeners]
    /\ movePc' = "idle"
    /\ UNCHANGED <<subscribers, last, fault, halted>>

\* ~TreeView(); the call record keeps the views handed to unsubscribeTreeView
destroy(v) ==
    /\ ~halted /\ movePc = "idle"
    /\ Alive(v)
    /\ subscribers' = IF DestructorUnsubscribes(views, v)
                      THEN unsubscribeTreeView(subscribers, v)
                      ELSE subscribers
    /\ views' = [views EXCEPT ![v] = NoView("destroyed")]
    /\ last' = ViewCall("destroy", v, v, Live(v),
                        IF DestructorUnsubscribes(views, v) THEN {v} ELSE {})
    /\ UNCHANGED <<movePc, fault, halted>>

\* the publisher invokes treeUpdated of every registered view; a registered
\* view that was destroyed is a dangling pointer
notify ==
    /\ ~halted /\ movePc = "idle"
    /\ subscribers # {}
    /\ IF \E v \in subscribers : ~Alive(v)
       THEN Undefined("dangling_view")
       ELSE UNCHANGED <<fault, halted>>
    /\ last' = ViewCall("notify", NullVertex, NullVertex, FALSE,
                        {v \in subscribers : Alive(v) /\ views[v].listeners # {}})
    /\ UNCHANGED <<views, subscribers, movePc>>

InitView ==
    /\ frame = EmptyMap
    /\ edges = EmptyMap
    /\ labelMap = [n \in Names |-> NullVertex]
    /\ eraseLabel = FALSE
    /\ last = Call("init", NullVertex, NullVertex, "none", FALSE, NullVertex)
    /\ fault = "none"
    /\ halted = FALSE
    /\ InitViews
    /\ ndebug \in BOOLEAN

NextView ==
    /\ \/ \E v \in ViewIds : construct(v)
       \/ \E v \in ViewIds, snap \in Snapshots : store_snapshot(v, snap)
       \/ \E v \in ViewIds, l \in Listeners : connect(v, l)
       \/ \E v \in ViewIds : subscribe(v)
       \/ \E dst, src \in ViewIds : copy_construct(dst, src)
       \/ \E dst, src \in ViewIds : copy_assign(dst, src)
       \/ \E dst, src \in ViewIds : move_construct_begin(dst, src)
       \/ move_construct_unsubscribe
       \/ move_construct_subscribe
       \/ move_construct_detach
       \/ move_construct_swap
       \/ \E v \in ViewIds : destroy(v)
       \/ notify
    /\ UNCHANGED <<graphVars, eraseLabel, ndebug>>

SpecView == InitView /\ [][NextView]_vars

\* ------------------------------------------------------ TreeView derivation
\* The traversal that fills a TreeView is not part of src/; it is taken from
\* section 4.2 of the specification: breadth first from the root, edges
\* followed in both directions, the incident edges of a vertex taken in
\* ascending edge identity.  VertexRelation, tree, crossEdges and isRoot are
\* those of src/src/graph/TreeView.hpp.
TreeEdgeIds == 1..NumTreeEdges

VertexRelation(parent, children) == [parent |-> parent, children |-> children]

\* mutant: the test of the parent is inverted
isRoot_inverted(T, vd) == T[vd].parent # NullVertex

\* TreeView::isRoot
isRoot(T, vd) == T[vd].parent = NullVertex

\* the edges with an end at v, and the other end of such an edge
IncidentEdges(E, v) == {e \in DOMAIN E : E[e].s = v \/ E[e].t = v}
Neighbour(E, e, v) == IF E[e].s = v THEN E[e].t ELSE E[e].s

\* a set of edge identities in ascending order
RECURSIVE Ascending(_)
Ascending(S) ==
    IF S = {} THEN <<>>
    ELSE LET m == CHOOSE x \in S : \A y \in S : x <= y
         IN  <<m>> \o Ascending(S \ {m})

\* steps 3 and 4 for the incident edges es of the vertex v taken from the
\* queue.  st = [tree, crossEdges, queue, via]; via[x] is the edge that
\* reached x from its parent.
RECURSIVE ExamineEdges(_, _, _, _)
ExamineEdges(E, st, v, es) ==
    IF es = <<>> THEN st
    ELSE LET e == Head(es)
             n == Neighbour(E, e, v)
             next ==
                IF n \notin DOMAIN st.tree
                THEN [tree |-> [x \in DOMAIN st.tree \cup {n} |->
                                   IF x = n THEN VertexRelation(v, {})
                                   ELSE IF x = v
                                        THEN VertexRelation(st.tree[v].parent,
                                                            st.tree[v].children \cup {n})
                                        ELSE st.tree[x]],
                      crossEdges |-> st.crossEdges,
                      queue |-> Append(st.queue, n),
                      via |-> [x \in DOMAIN st.via \cup {n} |->
                                  IF x = n THEN e ELSE st.via[x]]]
                ELSE IF v \in DOMAIN st.via /\ st.via[v] = e
                     THEN st
                     ELSE [st EXCEPT !.crossEdges = Append(@, e)]
         IN  ExamineEdges(E, next, v, Tail(es))

\* step 2: the queue is served first in, first out
RECURSIVE Traverse(_, _)
Traverse(E, st) ==
    IF st.queue = <<>> THEN st
    ELSE LET v == Head(st.queue)
         IN  Traverse(E, ExamineEdges(E, [st EXCEPT !.queue = Tail(@)], v,
                                      Ascending(IncidentEdges(E, v))))

\* the tree and the cross edges derived from the graph with edges E and root
deriveTree(E, root) ==
    LET st == Traverse(E, [tree |-> [x \in {root} |-> VertexRelation(NullVertex, {})],
                           crossEdges |-> <<>>,
                           queue |-> <<root>>,
                           via |-> EmptyMap])
    IN  [tree |-> st.tree, crossEdges |-> st.crossEdges]

\* a one-shot TreeView of the graph is handed to the client
getTree(v, root) ==
    /\ ~halted /\ movePc = "idle"
    /\ Fresh(v)
    /\ root \in vertices
    /\ LET d == deriveTree(edges, root)
       IN  views' = [views EXCEPT ![v] = [DefaultView EXCEPT !.tree = d.tree,
                                                             !.crossEdges = d.crossEdges]]
    /\ last' = ViewCall("getTree", root, v, FALSE, {})
    /\ UNCHANGED <<subscribers, movePc, fault, halted>>

\* A graph the class can hold: every vertex identity in use, at most one edge
\* for an ordered pair of vertices, any identities for the edges; and the
\* root the client asks for.
InitTree ==
    /\ frame = [v \in VertexIds |-> ToString(v)]
    /\ labelMap = [n \in {ToString(v) : v \in VertexIds} |->
                      CHOOSE v \in VertexIds : ToString(v) = n]
    /\ \E ids \in SUBSET TreeEdgeIds :
          \E st \in [ids -> VertexIds \X VertexIds] :
             /\ \A e1, e2 \in ids : st[e1] = st[e2] => e1 = e2
             /\ edges = [e \in ids |-> [s |-> st[e][1], t |-> st[e][2], tf |-> "t1"]]
    /\ eraseLabel = FALSE
    /\ \E root \in VertexIds : last = ViewCall("graph", root, root, FALSE, {})
    /\ fault = "none"
    /\ halted = FALSE
    /\ InitViews
    /\ ndebug = FALSE

\* derivations from the root chosen at the start, into one view after another
NextTree ==
    /\ \E v \in ViewIds : getTree(v, last.a1)
    /\ UNCHANGED <<graphVars, eraseLabel, ndebug>>

SpecTree == InitTree /\ [][NextTree]_vars

\* ================================================================= claims
\* a frame with this name is a vertex of the graph
Present(F, n) == \E v \in DOMAIN F : F[v] = n

AddVertexOps == {"add_vertex_label", "add_vertex_frame"}
AddEdgeOps == {"add_edge_label", "add_edge_vd"}
RemoveVertexOps == {"remove_vertex_label", "remove_vertex_vd"}
RemoveEdgeOps == {"remove_edge_ed", "remove_edge_label", "remove_edge_vd"}

\* the descriptors a call of an edge method works on, resolved in map M
FromOf(M, c) == IF c.op \in {"add_edge_label", "remove_edge_label"} THEN M[c.a1] ELSE c.a1
ToOf(M, c) == IF c.op \in {"add_edge_label", "remove_edge_label"} THEN M[c.a2] ELSE c.a2

Degree(E, v) == in_degree(E, v) + out_degree(E, v)

\* C1: the name index and the vertex set agree: every label in the index maps
\* to a vertex of the graph whose Frame carries that label, and every vertex
\* of the graph is the value of exactly one label.
C1_IndexAgreesWithVertices ==
    /\ \A n \in Names : labelMap[n] # NullVertex =>
            labelMap[n] \in vertices /\ frame[labelMap[n]] = n
    /\ \A v \in vertices : Cardinality({n \in Names : labelMap[n] = v}) = 1

\* C2: a lookup of a name whose frame is in the graph returns the vertex that
\* add_vertex created for it, and a lookup of a name whose frame was removed
\* returns no identity.
C2_LookupFollowsAddRemove ==
    last.op = "vertex" =>
        IF Present(frame, last.a1)
        THEN last.ret \in vertices /\ frame[last.ret] = last.a1
        ELSE last.ret = NullVertex

\* C3: add_vertex of a name whose frame is in the graph reports the duplicate
\* (returns no identity) and changes nothing; add_vertex of a name whose frame
\* is not in the graph creates exactly one vertex and returns its identity.
C3_AddVertexContract ==
    [][last'.op \in AddVertexOps =>
        IF Present(frame, last'.a1)
        THEN last'.ret = NullVertex /\ UNCHANGED graphVars
        ELSE /\ last'.ret \notin vertices
             /\ vertices' = vertices \cup {last'.ret}
             /\ frame'[last'.ret] = last'.a1
             /\ \A v \in vertices : frame'[v] = frame[v]
             /\ labelMap'[last'.a1] = last'.ret
             /\ edges' = edges]_vars

\* C4: there is at most one edge for each ordered (source, target) pair.
C4_NoParallelEdges ==
    \A e1, e2 \in DOMAIN edges :
        (edges[e1].s = edges[e2].s /\ edges[e1].t = edges[e2].t) => e1 = e2

\* an add_edge on a pair that had an edge returned that edge, a second edge is
\* in the graph
C4_Witness ==
    /\ last.op \in AddEdgeOps
    /\ fault = "none"
    /\ ~last.flag
    /\ num_edges = 2

\* C5: add_edge on an ordered pair that already has an edge keeps the edge set
\* and that edge's identity, sets its Transform to the new value and leaves
\* every other edge as it was.
C5_AddEdgeReplaces ==
    [][(/\ last'.op \in AddEdgeOps
        /\ fault' = "none"
        /\ EdgesFromTo(edges, FromOf(labelMap, last'), ToOf(labelMap, last')) # {})
       => /\ DOMAIN edges' = DOMAIN edges
          /\ last'.ret \in EdgesFromTo(edges, FromOf(labelMap, last'), ToOf(labelMap, last'))
          /\ edges'[last'.ret] = [edges[last'.ret] EXCEPT !.tf = last'.tf]
          /\ \A e \in DOMAIN edges \ {last'.ret} : edges'[e] = edges[e]
          /\ frame' = frame]_vars

\* the edge (a, b) was overwritten with t2 while the reverse edge keeps t1
C5_Witness ==
    /\ last.op \in AddEdgeOps
    /\ fault = "none"
    /\ ~last.flag
    /\ last.tf = "t2"
    /\ edges[last.ret].tf = "t2"
    /\ \E e \in DOMAIN edges :
          /\ edges[e].s = edges[last.ret].t
          /\ edges[e].t = edges[last.ret].s
          /\ edges[e].s # edges[e].t
          /\ edges[e].tf = "t1"

\* C6: every edge has its source and its target in the vertex set.
C6_NoDanglingEdges ==
    \A e \in DOMAIN edges : edges[e].s \in vertices /\ edges[e].t \in vertices

\* a vertex that had edges was removed while another vertex stays
C6_Witness ==
    /\ last.op \in RemoveVertexOps
    /\ fault = "none"
    /\ last.flag
    /\ last.ret \notin vertices
    /\ vertices # {}

\* C7: a destructive remove_edge of an existing edge (s, t) removes the edges
\* from s to t, removes s and t exactly when no edge is incident to them
\* afterwards, and keeps every other vertex.
C7_DestructiveRemoveEdge ==
    [][(/\ last'.op \in RemoveEdgeOps
        /\ last'.flag
        /\ FromOf(labelMap, last') \in vertices
        /\ ToOf(labelMap, last') \in vertices
        /\ EdgesFromTo(edges, FromOf(labelMap, last'), ToOf(labelMap, last')) # {})
       => LET s == FromOf(labelMap, last')
              t == ToOf(labelMap, last')
          IN  /\ EdgesFromTo(edges', s, t) = {}
              /\ \A e \in DOMAIN edges :
                    (edges[e].s # s \/ edges[e].t # t) =>
                        e \in DOMAIN edges' /\ edges'[e] = edges[e]
              /\ DOMAIN edges' \subseteq DOMAIN edges
              /\ \A v \in {s, t} : v \in vertices' <=> Degree(edges', v) > 0
              /\ \A v \in vertices \ {s, t} : v \in vertices'
              /\ vertices' \subseteq vertices
              /\ \A v \in vertices' : frame'[v] = frame[v]]_vars

\* a destructive removal took the source away and kept the target, which
\* still has an edge
C7_Witness ==
    /\ last.op \in RemoveEdgeOps
    /\ last.flag
    /\ fault = "none"
    /\ last.ret # {}
    /\ FromOf(labelMap, last) \notin vertices
    /\ ToOf(labelMap, last) \in vertices
    /\ Degree(edges, ToOf(labelMap, last)) > 0

\* C8: starting from the two-edge path over A, B, C, once both edges have been
\* removed destructively, in either order, no vertex and no edge is left; after
\* the first removal the frame at the far end of the removed edge is gone and
\* the other two remain.
C8_PathRemovedCompletely ==
    /\ num_edges = 0 => num_vertices = 0
    /\ num_edges = 1 => num_vertices = 2
    /\ num_edges = 2 => num_vertices = 3

\* the B-C edge was removed first and the A-B edge last, by name; the graph
\* is empty
C8_Witness ==
    /\ last.op = "remove_edge_label"
    /\ {last.a1, last.a2} = {"A", "B"}
    /\ last.flag
    /\ fault = "none"
    /\ num_edges = 0
    /\ num_vertices = 0

\* C9: remove_edge(from, to, destructive) with both frames in the graph and
\* no edge from `from` to `to` leaves the graph unchanged.
C9_RemoveMissingEdgeNoChange ==
    [][(/\ last'.op \in {"remove_edge_label", "remove_edge_vd"}
        /\ FromOf(labelMap, last') \in vertices
        /\ ToOf(labelMap, last') \in vertices
        /\ EdgesFromTo(edges, FromOf(labelMap, last'), ToOf(labelMap, last')) = {})
       => UNCHANGED graphVars]_vars

\* C10: add_edge and remove_edge by label with a name that is not a frame of
\* the graph leave the graph unchanged and touch no null vertex identity.
C10_UnknownFrameNoEffect ==
    [][(/\ last'.op \in {"add_edge_label", "remove_edge_label"}
        /\ (~Present(frame, last'.a1) \/ ~Present(frame, last'.a2)))
       => /\ UNCHANGED graphVars
          /\ fault' = "none"]_vars

\* C11: after clear() the graph has no vertex and no edge and no name
\* resolves to an identity.
C11_ClearForgetsEverything ==
    last.op = "clear" =>
        /\ vertices = {}
        /\ DOMAIN edges = {}
        /\ \A n \in Names : vertex(n) = NullVertex

RemovalOps == RemoveVertexOps \cup RemoveEdgeOps \cup {"clear"}

\* C19: add_vertex(n) called after a removal, while no frame named n is in the
\* graph, creates a new vertex: num_vertices grows by one and vertex(n)
\* resolves to a vertex of the graph whose Frame is named n.
C19_NameReusableAfterRemoval ==
    [][(/\ last'.op \in AddVertexOps
        /\ last.op \in RemovalOps
        /\ ~Present(frame, last'.a1))
       => /\ Cardinality(vertices') = num_vertices + 1
          /\ labelMap'[last'.a1] \in vertices'
          /\ frame'[labelMap'[last'.a1]] = last'.a1
          /\ last'.ret = labelMap'[last'.a1]]_vars

\* C20: a remove_edge of an existing edge (s, t) through any overload is the
\* step that each of the three overloads takes for that edge: the edge
\* descriptor, the vertex pair and the name pair lead to the same vertex set
\* and edge set, with the same access to the source before the target.
C20_RemoveEdgeOverloadsAgree ==
    [][(/\ last'.op \in RemoveEdgeOps
        /\ FromOf(labelMap, last') \in vertices
        /\ ToOf(labelMap, last') \in vertices
        /\ EdgesFromTo(edges, FromOf(labelMap, last'), ToOf(labelMap, last')) # {})
       => LET s == FromOf(labelMap, last')
              t == ToOf(labelMap, last')
          IN  /\ \A e \in EdgesFromTo(edges, s, t) : remove_edge_ed_effect(e, last'.flag)
              /\ remove_edge_vd_effect(s, t, last'.flag)
              /\ remove_edge_label_effect(getFrame(s), getFrame(t), last'.flag)]_vars

\* an edge was removed by name, destructively, while its reverse edge stays:
\* both endpoints are kept
C20_Witness ==
    /\ last.op = "remove_edge_label"
    /\ last.flag
    /\ fault = "none"
    /\ last.ret # {}
    /\ vertex(last.a1) \in vertices
    /\ vertex(last.a2) \in vertices
    /\ vertex(last.a1) # vertex(last.a2)
    /\ EdgesFromTo(edges, vertex(last.a2), vertex(last.a1)) # {}

CopyOps == {"copy_construct", "copy_assign"}

\* C12: a copy (constructor or assignment) taken from a live, subscribed
\* TreeView is detached: it holds no publisher, it is not registered, its
\* destructor would call no unsubscribe, and the source stays subscribed.
C12_CopyIsDetached ==
    [][(last'.op \in CopyOps /\ last'.flag)
       => /\ views'[last'.a1].publisher = NoPublisher
          /\ last'.a1 \notin subscribers'
          /\ ~DestructorUnsubscribes(views', last'.a1)
          /\ views'[last'.a2].publisher # NoPublisher
          /\ last'.a2 \in subscribers']_vars

\* C13: when the move construction of a TreeView from a live, subscribed
\* TreeView has returned, the destination is registered and holds the
\* publisher and the tree, crossEdges and treeUpdated slots the source had;
\* the source is not registered, has no publisher and no slots, and its
\* destructor calls no unsubscribe.
C13_MoveTransfersSubscription ==
    (last.op = "move_construct" /\ movePc = "idle" /\ last.flag)
    => /\ last.a1 \in subscribers
       /\ views[last.a1].publisher \in Publishers
       /\ views[last.a1].tree = last.ret[1]
       /\ views[last.a1].crossEdges = last.ret[2]
       /\ views[last.a1].listeners = last.ret[3]
       /\ last.a2 \notin subscribers
       /\ views[last.a2].publisher = NoPublisher
       /\ views[last.a2].listeners = {}
       /\ ~DestructorUnsubscribes(views, last.a2)

\* a live view with a filled tree, a cross edge and a connected slot was moved
C13_Witness ==
    /\ last.op = "move_construct"
    /\ movePc = "idle"
    /\ last.flag
    /\ last.ret[1] # EmptyMap
    /\ last.ret[2] # <<>>
    /\ last.ret[3] # {}
    /\ views[last.a1].tree # EmptyMap

\* C14: the subscriber set of the publisher never contains a destroyed
\* TreeView.
C14_NoDestroyedSubscriber ==
    \A v \in subscribers : views[v].state # "destroyed"

\* the move of a live view is between its first and its last statement
MovingLive == movePc # "idle" /\ last.op = "move_construct" /\ last.flag

\* C18: in every state inside the move of a live TreeView exactly one of
\* source and destination is registered with the publisher.
C18_NeverBothNorNeither ==
    MovingLive => ((last.a2 \in subscribers) # (last.a1 \in subscribers))

\* C18, as the code has it: inside the move of a live TreeView the source is
\* registered up to the unsubscribe call, the destination from the subscribe
\* call on, never both; between the two calls neither is registered.
C18_SourceDetachedFirst ==
    MovingLive
    => /\ ~(last.a2 \in subscribers /\ last.a1 \in subscribers)
       /\ movePc = "unsubscribe" => (last.a2 \in subscribers /\ last.a1 \notin subscribers)
       /\ movePc = "subscribe" => (last.a2 \notin subscribers /\ last.a1 \notin subscribers)
       /\ movePc \in {"detach", "swap"} =>
              (last.a2 \notin subscribers /\ last.a1 \in subscribers)

\* the move of a live view is between its two calls of the publisher
C18_Witness == MovingLive /\ movePc = "subscribe"

\* the vertices connected to the set S by edges taken in either direction
RECURSIVE ConnectedTo(_, _)
ConnectedTo(E, S) ==
    LET T == S \cup UNION {{Neighbour(E, e, v) : e \in IncidentEdges(E, v)} : v \in S}
    IN  IF T = S THEN S ELSE ConnectedTo(E, T)

\* no cycle in the undirected reading: no edge from a vertex to itself, and
\* the two ends of every edge are disconnected once the edge is taken away
Acyclic(E) ==
    \A e \in DOMAIN E :
        /\ E[e].s # E[e].t
        /\ E[e].t \notin ConnectedTo(Restrict(E, DOMAIN E \ {e}), {E[e].s})

DerivedViews == {v \in ViewIds : Alive(v)}

\* C16: a TreeView derived from root R over a graph without cycles has as
\* keys exactly the vertices connected to R, R is its only root, every other
\* vertex is a child of its parent, and crossEdges is empty; two derivations
\* from the same graph and root are equal.
C16_AcyclicDerivation ==
    Acyclic(edges) =>
        \A v \in DerivedViews :
            LET T == views[v].tree
                R == last.a1
            IN  /\ DOMAIN T = ConnectedTo(edges, {R})
                /\ \A x \in DOMAIN T : isRoot(T, x) <=> x = R
                /\ \A x \in DOMAIN T \ {R} :
                      /\ T[x].parent \in DOMAIN T
                      /\ x \in T[T[x].parent].children
                /\ \A x \in DOMAIN T : \A c \in T[x].children :
                      c \in DOMAIN T /\ T[c].parent = x
                /\ views[v].crossEdges = <<>>
                /\ \A w \in DerivedViews :
                      views[w].tree = T /\ views[w].crossEdges = views[v].crossEdges

\* two views were derived from a path of three vertices, rooted at an end
C16_Witness ==
    /\ Acyclic(edges)
    /\ Cardinality(DOMAIN edges) = 2
    /\ Cardinality(DerivedViews) >= 2
    /\ Cardinality(ConnectedTo(edges, {last.a1})) = 3
    /\ \E x \in DOMAIN views[1].tree :
          ~isRoot(views[1].tree, x) /\ ~isRoot(views[1].tree, views[1].tree[x].parent)

\* the graph is one directed cycle through three vertices, the root on it
ThreeCycle ==
    /\ Cardinality(DOMAIN edges) = 3
    /\ \E a, b, c \in vertices :
          /\ a = last.a1
          /\ Cardinality({a, b, c}) = 3
          /\ {<<edges[e].s, edges[e].t>> : e \in DOMAIN edges} =
                 {<<a, b>>, <<b, c>>, <<c, a>>}

C21_SelfLoopHandledOnce ==
    [][(/\ last'.op \in RemoveEdgeOps
        /\ last'.flag
        /\ FromOf(labelMap, last') \in vertices
        /\ FromOf(labelMap, last') = ToOf(labelMap, last')
        /\ EdgesFromTo(edges, FromOf(labelMap, last'), FromOf(labelMap, last')) # {})
       => /\ fault' = "none"
          /\ ~halted'
          /\ vertices' \subseteq vertices
          /\ vertices \ vertices' \subseteq {FromOf(labelMap, last')}]_vars

\* C22: setPublisher is only invoked on a TreeView whose publisher is null,
\* by a client's subscription and by the move constructor alike, and once an
\* operation has returned the publisher of every TreeView is set exactly when
\* the view is registered.
C22_SetPublisherAssertionHolds ==
    [][/\ last'.op = "subscribe" => setPublisherAsserts(views, last'.a1)
       /\ (movePc = "subscribe" /\ movePc' = "detach")
             => setPublisherAsserts(views, last.a1)
       /\ fault' # "assert_publisher"
       /\ (movePc' = "idle" /\ ~halted')
             => \A v \in ViewIds :
                   views'[v].state = "alive"
                   => ((views'[v].publisher # NoPublisher) <=> (v \in subscribers'))]_vars

====
